---- MODULE Spec2Model ----
(***************************************************************************)
(* WinMMF: the in-band reader/writer lock (RWLock, winmmf/src/states.rs)   *)
(* and the Mapping Object built on it (MemoryMappedFile,                   *)
(* winmmf/src/mmf.rs).                                                     *)
(*                                                                         *)
(* The 32-bit control word is kept as a record [hi, r]: hi is the top byte *)
(* (bit 31 = W, bits 30..24 = INIT), r the low 24 bits (reader count).     *)
(* Every atomic load, store and compare-exchange of the word is one step.  *)
(* current_lock is private to an instance (one thread per instance), so    *)
(* its loads and read-modify-writes are folded into the step of the shared *)
(* access they accompany.  A compare-exchange fails only when the word     *)
(* has really changed (x86/AMD64: compare_exchange_weak does not fail      *)
(* spuriously there).                                                      *)
(***************************************************************************)
EXTENDS Integers, Sequences, FiniteSets, TLC

\* ------------------------------------------------------------- bounds
NumInst == 2
MaxHeld == 2
MaxCount == 2
Size == 2
MaxByte == 1
SatGap == 2          \* how far below the reader cap the word may start
MaxTries == 2        \* largest max_tries passed to a spin helper called directly

\* ------------------------------------------------- program constants
INIT_BYTE == 255
W_BIT == 128
READ_LOCK_MASK == 16777215
HOLDING_W == 128
HOLDING_R == 127
U8 == 256

Inst == 1..NumInst
Creator == CHOOSE i \in Inst : \A j \in Inst : i <= j
Byte == 0..MaxByte

INITIALIZE_MASK == [hi |-> INIT_BYTE, r |-> 0]
ZeroWord == [hi |-> 0, r |-> 0]

LockOps == {"lock_read", "unlock_read", "lock_write", "unlock_write"}
ReadOps == {"read", "read_spin"}
WriteOps == {"write", "write_spin"}
Errors == {"ReadLocked", "WriteLocked", "Uninitialized", "MaxReaders", "NotEnoughMemory",
           "MMF_NotFound", "LockViolation", "MaxTriesReached", "GeneralFailure"}

VARIABLES
  chunk,         \* the shared control word
  current_lock,  \* [Inst -> 0..255]  private lock state of each instance
  prev,          \* [Inst -> word]    fetch_update's loaded value
  pc,            \* [Inst -> label]   position of each instance
  op,            \* [Inst -> name]    the API call in progress / last made
  ret,           \* [Inst -> result]  result of the last completed call
  heldR,         \* [Inst -> Nat]     read locks the caller was granted and has not released
  heldW,         \* [Inst -> BOOLEAN] the caller was granted the write lock and has not released it
  rawcall,       \* [Inst -> BOOLEAN] the call in progress / last made began on an unpublished word
  wheld,         \* [Inst -> SUBSET Inst] others holding the write lock ever since this call began
  quiet,         \* [st, who]: "armed" once a writer's unlock_write returned Ok; "next": who's lock_read is the next call
  payload,       \* [1..Size -> Byte] the shared payload bytes
  closed,        \* [Inst -> BOOLEAN] the handle's close latch
  readonly,      \* [Inst -> BOOLEAN] the handle was opened read-only
  cnt,           \* [Inst -> Nat]     count argument of the read in progress (max_tries of a spin helper)
  wbuf,          \* [Inst -> Seq(Byte)] buffer argument of the write in progress
  idx,           \* [Inst -> Nat]     bytes copied so far (tries used by a spin helper)
  dst,           \* [Inst -> Seq(Byte)] bytes copied into the read destination so far
  result,        \* [Inst -> Seq(Byte)] the Vec returned by the last successful read
  lastw,         \* [ok, buf]: ok: the last write called was write(buf), and it returned Ok
                 \*            with no other call in progress
  MMFS,          \* [set, inner]: the FFI crate's OnceLock<Mutex<Vec<MemoryMappedFile>>>;
                 \*            inner lists the mappings by the number of the push that added them
  CURRENT,       \* the FFI crate's default index
  issued,        \* Seq(Nat): issued[m] is the index returned for the m-th mapping pushed
  ffi_call       \* [op, mmf_idx, ret, looked, sel, alive]: the last FFI call, the mapping
                 \*            it selected (0: none), and whether the process is still running

\* the state of the FFI crate and that of the winmmf crate
ffivars == <<MMFS, CURRENT, issued, ffi_call>>
mmfvars == <<chunk, current_lock, prev, pc, op, ret, heldR, heldW, rawcall, wheld, quiet,
             payload, closed, readonly, cnt, wbuf, idx, dst, result, lastw>>

vars == <<mmfvars, ffivars>>

\* what a lock step leaves alone
argvars == <<op, rawcall, payload, closed, readonly, cnt, wbuf, ffivars>>
\* what the end of a lock primitive decides
finvars == <<ret, heldR, heldW, wheld, quiet, idx, dst, result, lastw>>

None == [ok |-> FALSE, buf |-> <<>>]

\* ------------------------------------------------ u32 / u8 arithmetic
\* lock + 1 on the u32 word (carries from R into the top byte, wraps at 2^32)
Add1(w) ==
  IF w.r = READ_LOCK_MASK THEN [hi |-> (w.hi + 1) % U8, r |-> 0] ELSE [hi |-> w.hi, r |-> w.r + 1]

\* lock - 1 on the u32 word (borrows from the top byte, wraps at 0)
Sub1(w) ==
  IF w.r = 0 THEN [hi |-> (w.hi + U8 - 1) % U8, r |-> READ_LOCK_MASK] ELSE [hi |-> w.hi, r |-> w.r - 1]

\* lock | WRITE_LOCK_MASK
OrW(w) == [hi |-> IF w.hi >= W_BIT THEN w.hi ELSE w.hi + W_BIT, r |-> w.r]

\* lock ^ WRITE_LOCK_MASK
XorW(w) == [hi |-> IF w.hi >= W_BIT THEN w.hi - W_BIT ELSE w.hi + W_BIT, r |-> w.r]

\* ------------------------------------------------------------ probes
initialized(i) == chunk.hi < INIT_BYTE \/ current_lock[i] < 255

readlocked(i) == chunk.r > 0 \/ (current_lock[i] % (HOLDING_R + 1)) > 0

writelocked(i) == chunk.hi >= W_BIT \/ current_lock[i] >= HOLDING_W

locked(i) == chunk.hi < INIT_BYTE \/ current_lock[i] > 0

\* --------------------------------------------- fetch_update closures
\* each yields [some, next, cl]: Some(next)/None and current_lock after the closure ran
\* lock_read's closure with the test of the reader count of the word left out
\* (what C12 must tell apart)
lock_read_closure_unsaturated(lock, cl) ==
  IF cl = HOLDING_R
  THEN [some |-> FALSE, next |-> lock, cl |-> cl]
  ELSE [some |-> TRUE, next |-> Add1(lock), cl |-> (cl + 1) % U8]

lock_read_closure(lock, cl) ==
  IF lock.r = READ_LOCK_MASK \/ cl = HOLDING_R
  THEN [some |-> FALSE, next |-> lock, cl |-> cl]
  ELSE [some |-> TRUE, next |-> Add1(lock), cl |-> (cl + 1) % U8]

\* unlock_read's closure taking a reader off the word only with the instance's last
\* read lock (what C33 must tell apart)
unlock_read_closure_last_only(lock, cl) ==
  IF lock.r = 0 \/ cl = 0
  THEN [some |-> FALSE, next |-> lock, cl |-> cl]
  ELSE [some |-> TRUE, next |-> IF cl = 1 THEN Sub1(lock) ELSE lock, cl |-> (cl + U8 - 1) % U8]

unlock_read_closure(lock, cl) ==
  IF lock.r = 0 \/ cl = 0
  THEN [some |-> FALSE, next |-> lock, cl |-> cl]
  ELSE [some |-> TRUE, next |-> Sub1(lock), cl |-> (cl + U8 - 1) % U8]

lock_write_closure(lock, cl) ==
  [some |-> TRUE, next |-> OrW(lock), cl |-> IF cl >= HOLDING_W THEN cl ELSE cl + HOLDING_W]

\* unlock_write's closure toggling the whole high byte, lock ^ INITIALIZE_MASK
\* (what C36 must tell apart)
unlock_write_closure_init_mask(lock, cl) ==
  IF cl < HOLDING_W
  THEN [some |-> FALSE, next |-> lock, cl |-> cl]
  ELSE [some |-> TRUE, next |-> [hi |-> INIT_BYTE - lock.hi, r |-> lock.r], cl |-> cl - HOLDING_W]

unlock_write_closure(lock, cl) ==
  IF cl < HOLDING_W
  THEN [some |-> FALSE, next |-> lock, cl |-> cl]
  ELSE [some |-> TRUE, next |-> XorW(lock), cl |-> cl - HOLDING_W]

\* ------------------------------------------------------ bookkeeping
LockStep(i, newchunk, newcl, newprev) ==
  /\ chunk' = newchunk
  /\ current_lock' = [current_lock EXCEPT ![i] = newcl]
  /\ prev' = [prev EXCEPT ![i] = newprev]
  /\ UNCHANGED argvars

Goto(i, label) ==
  /\ pc' = [pc EXCEPT ![i] = label]
  /\ UNCHANGED finvars

\* a call that has been made and has not returned
InCall(j) == pc[j] \notin {"idle", "unopened", "panicked"}

\* a read helper that tries again after any error (what C29 must tell apart)
spin_and_lock_read_retry_any(res) == res # "Ok"

\* spin_and_lock_read / spin_and_lock_write: the results that make the helper try again
spin_and_lock_read_retry(res) == res = "WriteLocked"

spin_and_lock_write_retry(res) == res \in {"WriteLocked", "ReadLocked"}

\* the spin helpers called directly, with max_tries in cnt and the tries used in idx
SpinOps == {"spin_and_lock_read", "spin_and_lock_write"}

\* a helper that makes one attempt more than max_tries (what C28 must tell apart)
spin_tries_left_one_more(i) == idx[i] < cnt[i]

\* a failed attempt uses up one try; the helper goes on while tries remain
spin_tries_left(i) == idx[i] + 1 < cnt[i]

\* what a spin helper does with the result res of an attempt: return Ok or an error
\* that is not transient, try again, or give up with MaxTriesReached
spin_outcome(i, res) ==
  IF res = "Ok" THEN "Ok"
  ELSE IF \/ op[i] = "spin_and_lock_read" /\ spin_and_lock_read_retry(res)
          \/ op[i] = "spin_and_lock_write" /\ spin_and_lock_write_retry(res)
       THEN (IF spin_tries_left(i) THEN "retry" ELSE "MaxTriesReached")
  ELSE res

\* where a call goes once the lock primitive prim has produced res
\* (a direct call returns it; read_to_raw / write go on as their code says:
\* to the copy, or past a copy of no bytes to the unlock)
AfterPrim(i, prim, res) ==
  IF op[i] = prim THEN "idle"
  ELSE IF op[i] \in SpinOps THEN
         (IF spin_outcome(i, res) # "retry" THEN "idle"
          ELSE IF prim = "lock_read" THEN "lr_init" ELSE "lw_init")
  ELSE IF prim = "lock_read" THEN
         (IF res = "Ok" THEN "rd_copy"
          ELSE IF op[i] = "read_spin" /\ spin_and_lock_read_retry(res) THEN "lr_init"
          ELSE "idle")
  ELSE IF prim = "unlock_read" THEN (IF res = "Ok" THEN "idle" ELSE "panicked")
  ELSE IF prim = "lock_write" THEN
         (IF res = "Ok" THEN (IF Len(wbuf[i]) = 0 THEN "uw_wl" ELSE "wr_copy")
          ELSE IF op[i] = "write_spin" /\ spin_and_lock_write_retry(res) THEN "lw_init"
          ELSE "idle")
  ELSE "idle"

\* the value the call reports once prim has produced res ("pending": not returned yet)
ResultAfterPrim(i, prim, res) ==
  IF op[i] = prim THEN res
  ELSE IF op[i] \in SpinOps THEN
         (IF spin_outcome(i, res) = "retry" THEN "pending" ELSE spin_outcome(i, res))
  ELSE IF prim = "unlock_read" THEN (IF res = "Ok" THEN "Ok" ELSE "panic")
  ELSE IF prim = "unlock_write" THEN res
  ELSE IF AfterPrim(i, prim, res) = "idle" THEN res
  ELSE "pending"

\* the end of lock primitive prim on instance i with result res
Finish(i, prim, res) ==
  /\ pc' = [pc EXCEPT ![i] = AfterPrim(i, prim, res)]
  /\ ret' = [ret EXCEPT ![i] = ResultAfterPrim(i, prim, res)]
  /\ heldR' = [heldR EXCEPT ![i] =
        IF op[i] \in {prim} \cup SpinOps /\ res = "Ok" /\ prim = "lock_read" THEN @ + 1
        ELSE IF op[i] = prim /\ res = "Ok" /\ prim = "unlock_read" /\ @ > 0 THEN @ - 1
        ELSE @]
  /\ heldW' = [heldW EXCEPT ![i] =
        IF op[i] \in {prim} \cup SpinOps /\ res = "Ok" /\ prim = "lock_write" THEN TRUE
        ELSE IF op[i] = prim /\ res = "Ok" /\ prim = "unlock_write" THEN FALSE
        ELSE @]
  /\ wheld' = [j \in Inst |->
        IF op[i] = prim /\ res = "Ok" /\ prim = "unlock_write" THEN wheld[j] \ {i} ELSE wheld[j]]
  /\ quiet' =
        IF op[i] = prim /\ res = "Ok" /\ prim = "unlock_write" /\ heldW[i]
           /\ \A j \in Inst \ {i} : pc[j] = "idle"
        THEN [st |-> "armed", who |-> i] ELSE quiet
  /\ idx' = [idx EXCEPT ![i] =
        IF op[i] \in SpinOps /\ AfterPrim(i, prim, res) # "idle" THEN @ + 1 ELSE 0]
  /\ dst' = [dst EXCEPT ![i] = IF prim = "lock_read" THEN <<>> ELSE @]
  /\ IF op[i] \in ReadOps /\ prim = "unlock_read" /\ res = "Ok"
     THEN \E garbage \in [1..(cnt[i] - Len(dst[i])) -> Byte] :
             result' = [result EXCEPT ![i] = dst[i] \o garbage]
     ELSE UNCHANGED result
  /\ lastw' =
        IF op[i] = "write" /\ prim = "unlock_write" /\ res = "Ok"
        THEN (IF \A j \in Inst \ {i} : ~InCall(j) THEN [ok |-> TRUE, buf |-> wbuf[i]] ELSE None)
        ELSE lastw

\* one round of fetch_update: the closure has run on prev[i] and yielded c;
\* None ends the call with err, Some(next) is compare-exchanged against the word
\* (prev is a local of fetch_update: it is gone, here zero, once the call has ended)
\* the counts the model follows: up to bound above zero, and within bound of the cap
NearEnds(n, bound) == n \in 0..bound \/ n \in (HOLDING_R - bound)..(HOLDING_R + bound)

FetchUpdate(i, c, prim, err) ==
  IF ~c.some
  THEN /\ LockStep(i, chunk, c.cl, ZeroWord)
       /\ Finish(i, prim, err)
  ELSE /\ NearEnds(c.cl % (HOLDING_R + 1), MaxCount)
       /\ IF chunk = prev[i]
          THEN /\ LockStep(i, c.next, c.cl, ZeroWord)
               /\ Finish(i, prim, "Ok")
          ELSE /\ LockStep(i, chunk, c.cl, chunk)
               /\ Goto(i, pc[i])

\* ---------------------------------------------------------- lock_read
lock_read_initialized(i) ==
  /\ pc[i] = "lr_init"
  /\ LockStep(i, chunk, current_lock[i], prev[i])
  /\ IF ~initialized(i) THEN Finish(i, "lock_read", "Uninitialized") ELSE Goto(i, "lr_wl")

lock_read_writelocked(i) ==
  /\ pc[i] = "lr_wl"
  /\ LockStep(i, chunk, current_lock[i], prev[i])
  /\ IF writelocked(i) THEN Finish(i, "lock_read", "WriteLocked") ELSE Goto(i, "lr_load")

lock_read_load(i) ==
  /\ pc[i] = "lr_load"
  /\ LockStep(i, chunk, current_lock[i], chunk)
  /\ Goto(i, "lr_cas")

lock_read_cas(i) ==
  /\ pc[i] = "lr_cas"
  /\ FetchUpdate(i, lock_read_closure(prev[i], current_lock[i]), "lock_read", "MaxReaders")

\* -------------------------------------------------------- unlock_read
unlock_read_initialized(i) ==
  /\ pc[i] = "ur_init"
  /\ LockStep(i, chunk, current_lock[i], prev[i])
  /\ IF ~initialized(i) THEN Finish(i, "unlock_read", "Uninitialized") ELSE Goto(i, "ur_wl")

unlock_read_writelocked(i) ==
  /\ pc[i] = "ur_wl"
  /\ LockStep(i, chunk, current_lock[i], prev[i])
  /\ IF writelocked(i) THEN Finish(i, "unlock_read", "WriteLocked") ELSE Goto(i, "ur_load")

unlock_read_load(i) ==
  /\ pc[i] = "ur_load"
  /\ LockStep(i, chunk, current_lock[i], chunk)
  /\ Goto(i, "ur_cas")

unlock_read_cas(i) ==
  /\ pc[i] = "ur_cas"
  /\ FetchUpdate(i, unlock_read_closure(prev[i], current_lock[i]), "unlock_read", "MaxReaders")

\* --------------------------------------------------------- lock_write
lock_write_initialized(i) ==
  /\ pc[i] = "lw_init"
  /\ LockStep(i, chunk, current_lock[i], prev[i])
  /\ IF ~initialized(i) THEN Finish(i, "lock_write", "Uninitialized") ELSE Goto(i, "lw_wl")

lock_write_writelocked(i) ==
  /\ pc[i] = "lw_wl"
  /\ LockStep(i, chunk, current_lock[i], prev[i])
  /\ IF writelocked(i) THEN Finish(i, "lock_write", "WriteLocked") ELSE Goto(i, "lw_rl")

lock_write_readlocked(i) ==
  /\ pc[i] = "lw_rl"
  /\ LockStep(i, chunk, current_lock[i], prev[i])
  /\ IF readlocked(i) THEN Finish(i, "lock_write", "ReadLocked") ELSE Goto(i, "lw_load")

lock_write_load(i) ==
  /\ pc[i] = "lw_load"
  /\ LockStep(i, chunk, current_lock[i], chunk)
  /\ Goto(i, "lw_cas")

lock_write_cas(i) ==
  /\ pc[i] = "lw_cas"
  /\ FetchUpdate(i, lock_write_closure(prev[i], current_lock[i]), "lock_write", "GeneralFailure")

\* ------------------------------------------------------- unlock_write
unlock_write_writelocked(i) ==
  /\ pc[i] = "uw_wl"
  /\ LockStep(i, chunk, current_lock[i], prev[i])
  /\ IF ~writelocked(i) THEN Finish(i, "unlock_write", "Ok") ELSE Goto(i, "uw_init")

unlock_write_initialized(i) ==
  /\ pc[i] = "uw_init"
  /\ LockStep(i, chunk, current_lock[i], prev[i])
  /\ IF ~initialized(i) THEN Finish(i, "unlock_write", "Uninitialized") ELSE Goto(i, "uw_load")

unlock_write_load(i) ==
  /\ pc[i] = "uw_load"
  /\ LockStep(i, chunk, current_lock[i], chunk)
  /\ Goto(i, "uw_cas")

unlock_write_cas(i) ==
  /\ pc[i] = "uw_cas"
  /\ FetchUpdate(i, unlock_write_closure(prev[i], current_lock[i]), "unlock_write", "GeneralFailure")

LockSteps(i) ==
  \/ lock_read_initialized(i) \/ lock_read_writelocked(i) \/ lock_read_load(i) \/ lock_read_cas(i)
  \/ unlock_read_initialized(i) \/ unlock_read_writelocked(i) \/ unlock_read_load(i) \/ unlock_read_cas(i)
  \/ lock_write_initialized(i) \/ lock_write_writelocked(i) \/ lock_write_readlocked(i)
  \/ lock_write_load(i) \/ lock_write_cas(i)
  \/ unlock_write_writelocked(i) \/ unlock_write_initialized(i) \/ unlock_write_load(i)
  \/ unlock_write_cas(i)

\* ------------------------------------------------ construction steps
\* RWLock::from_raw: from_existing, then store the unpublished sentinel
from_raw(i) ==
  /\ pc[i] = "new_raw"
  /\ chunk' = INITIALIZE_MASK
  /\ current_lock' = [current_lock EXCEPT ![i] = 0]
  /\ pc' = [pc EXCEPT ![i] = "new_init"]
  /\ UNCHANGED <<prev, argvars, finvars>>

\* set_init that flips the word between the sentinel and 0 instead of storing 0
\* (what C23 must tell apart)
set_init_stores_flipping(i) ==
  /\ chunk' = IF chunk = INITIALIZE_MASK THEN ZeroWord ELSE INITIALIZE_MASK
  /\ current_lock' = [current_lock EXCEPT ![i] = 0]

\* the stores of RWLock::set_init
set_init_stores(i) ==
  /\ chunk' = ZeroWord
  /\ current_lock' = [current_lock EXCEPT ![i] = 0]

\* RWLock::set_init, as the second half of from_raw(..).initialize() or called again later
set_init(i) ==
  /\ pc[i] \in {"new_init", "si"}
  /\ set_init_stores(i)
  /\ pc' = [pc EXCEPT ![i] = "idle"]
  /\ ret' = [ret EXCEPT ![i] = "Ok"]
  /\ op' = [op EXCEPT ![i] = "set_init"]
  /\ UNCHANGED <<prev, rawcall, payload, closed, readonly, cnt, wbuf,
                 heldR, heldW, wheld, quiet, idx, dst, result, lastw, ffivars>>

\* ------------------------------------------- calls made on a lock
\* the word holds from_raw's sentinel: from_raw has run, set_init has not
Unpublished == pc[Creator] \in {"new_init"}

\* the creator's from_raw(..).initialize() has completed
Published == pc[Creator] \notin {"new_zero", "new_raw", "new_init"}

Call(i, name, entry) ==
  /\ pc[i] = "idle"
  /\ pc' = [pc EXCEPT ![i] = entry]
  /\ op' = [op EXCEPT ![i] = name]
  /\ ret' = [ret EXCEPT ![i] = "pending"]
  /\ rawcall' = [rawcall EXCEPT ![i] = Unpublished]
  /\ wheld' = [wheld EXCEPT ![i] = {j \in Inst \ {i} : heldW[j]}]
  /\ quiet' = IF quiet.st = "armed" /\ name = "lock_read"
              THEN [st |-> "next", who |-> i] ELSE [st |-> "no", who |-> i]
  /\ UNCHANGED <<chunk, current_lock, prev, heldR, heldW, payload, closed, readonly, cnt, wbuf,
                 idx, dst, result, lastw, ffivars>>

\* a caller that releases only what it was granted
CallLockRead(i) == NearEnds(heldR[i] + 1, MaxHeld) /\ Call(i, "lock_read", "lr_init")

CallLockWrite(i) == Call(i, "lock_write", "lw_init")

CallUnlockRead(i) ==
  heldR[i] > 0 /\ NearEnds(heldR[i] - 1, MaxHeld) /\ Call(i, "unlock_read", "ur_init")

CallUnlockWrite(i) == heldW[i] /\ Call(i, "unlock_write", "uw_wl")

\* any other use the public trait allows
MisuseUnlockRead(i) == heldR[i] = 0 /\ Call(i, "unlock_read", "ur_init")

MisuseUnlockWrite(i) == ~heldW[i] /\ Call(i, "unlock_write", "uw_wl")

CallSetInit(i) == Call(i, "set_init", "si")

\* a direct call of a spin helper with max_tries: no tries, no attempt
SpinCall(i, name, entry, max_tries) ==
  /\ pc[i] = "idle"
  /\ pc' = [pc EXCEPT ![i] = IF max_tries = 0 THEN "idle" ELSE entry]
  /\ op' = [op EXCEPT ![i] = name]
  /\ ret' = [ret EXCEPT ![i] = IF max_tries = 0 THEN "MaxTriesReached" ELSE "pending"]
  /\ cnt' = [cnt EXCEPT ![i] = max_tries]
  /\ idx' = [idx EXCEPT ![i] = 0]
  /\ rawcall' = [rawcall EXCEPT ![i] = Unpublished]
  /\ wheld' = [wheld EXCEPT ![i] = {j \in Inst \ {i} : heldW[j]}]
  /\ quiet' = [st |-> "no", who |-> i]
  /\ UNCHANGED <<chunk, current_lock, prev, heldR, heldW, payload, closed, readonly, wbuf,
                 dst, result, lastw, ffivars>>

spin_and_lock_read(i) ==
  \E max_tries \in 0..MaxTries :
    heldR[i] < MaxHeld /\ SpinCall(i, "spin_and_lock_read", "lr_init", max_tries)

spin_and_lock_write(i) ==
  \E max_tries \in 0..MaxTries : SpinCall(i, "spin_and_lock_write", "lw_init", max_tries)


\* ---------------------------------------------- the Mapping Object
Bufs == UNION {[1..n -> 1..MaxByte] : n \in 0..(Size + 1)}
Counts == 0..(Size + 1)

Min(a, b) == IF a < b THEN a ELSE b

ghostvars == <<heldR, heldW, rawcall, wheld, quiet>>

\* MemoryMappedFile::new, "Waste some time to ensure the memory is zeroed out":
\* size + 4 zero bytes copied over the view (control word and payload)
new_zero(h) ==
  /\ pc[h] = "new_zero"
  /\ chunk' = ZeroWord
  /\ payload' = [k \in 1..Size |-> 0]
  /\ pc' = [pc EXCEPT ![h] = "new_raw"]
  /\ UNCHANGED <<current_lock, prev, op, ret, closed, readonly, cnt, wbuf, idx, dst, result,
                 lastw, ghostvars, ffivars>>

\* the named mapping exists while a handle or a view of some object refers to it
\* (an object keeps its view mapped until its fields are dropped)
RegionExists == \E j \in Inst : pc[j] # "unopened"

\* MemoryMappedFile::new up to the mapped view, on a name not in use: CreateFileMappingA
\* makes a region of zero pages and MapViewOfFile maps it; zeroing and from_raw follow
new(h) ==
  /\ pc[h] = "unopened"
  /\ ~RegionExists
  /\ chunk' = ZeroWord
  /\ payload' = [k \in 1..Size |-> 0]
  /\ pc' = [pc EXCEPT ![h] = "new_zero"]
  /\ op' = [op EXCEPT ![h] = "new"]
  /\ ret' = [ret EXCEPT ![h] = "pending"]
  /\ readonly' = [readonly EXCEPT ![h] = FALSE]
  /\ closed' = [closed EXCEPT ![h] = FALSE]
  /\ lastw' = None
  /\ UNCHANGED <<current_lock, prev, cnt, wbuf, idx, dst, result, ghostvars, ffivars>>

\* open that builds its lock with from_raw instead of from_existing, storing the
\* sentinel over the peers' lock state (what C26 must tell apart)
open_from_raw(h, ro) ==
  /\ pc[h] = "unopened"
  /\ op' = [op EXCEPT ![h] = "open"]
  /\ IF RegionExists
     THEN /\ pc' = [pc EXCEPT ![h] = "idle"]
          /\ ret' = [ret EXCEPT ![h] = "Ok"]
          /\ current_lock' = [current_lock EXCEPT ![h] = 0]
          /\ readonly' = [readonly EXCEPT ![h] = ro]
          /\ closed' = [closed EXCEPT ![h] = FALSE]
          /\ chunk' = INITIALIZE_MASK
     ELSE /\ ret' = [ret EXCEPT ![h] = "OS_Err"]
          /\ UNCHANGED <<pc, current_lock, readonly, closed, chunk>>
  /\ UNCHANGED <<prev, payload, cnt, wbuf, idx, dst, result, lastw, ghostvars, ffivars>>

\* MemoryMappedFile::open: OpenFileMappingA (an OS error when no such mapping exists),
\* MapViewOfFile, LOCK::from_existing over the mapped view, readonly as passed
open(h, ro) ==
  /\ pc[h] = "unopened"
  /\ op' = [op EXCEPT ![h] = "open"]
  /\ IF RegionExists
     THEN /\ pc' = [pc EXCEPT ![h] = "idle"]
          /\ ret' = [ret EXCEPT ![h] = "Ok"]
          /\ current_lock' = [current_lock EXCEPT ![h] = 0]
          /\ readonly' = [readonly EXCEPT ![h] = ro]
          /\ closed' = [closed EXCEPT ![h] = FALSE]
     ELSE /\ ret' = [ret EXCEPT ![h] = "OS_Err"]
          /\ UNCHANGED <<pc, current_lock, readonly, closed>>
  /\ UNCHANGED <<chunk, prev, payload, cnt, wbuf, idx, dst, result, lastw, ghostvars, ffivars>>

\* MemoryMappedFile::close: latch closed, CloseHandle (an error on a handle closed before)
close(h) ==
  /\ pc[h] = "idle"
  /\ closed' = [closed EXCEPT ![h] = TRUE]
  /\ op' = [op EXCEPT ![h] = "close"]
  /\ ret' = [ret EXCEPT ![h] = IF closed[h] THEN "OS_Err" ELSE "Ok"]
  /\ UNCHANGED <<chunk, current_lock, prev, pc, payload, readonly, cnt, wbuf, idx, dst, result,
                 lastw, ghostvars, ffivars>>

\* Drop for MemoryMappedFile: drop() calls close() and ignores its result; the fields
\* are dropped after drop() returns
drop(h) ==
  /\ pc[h] = "idle"
  /\ closed' = [closed EXCEPT ![h] = TRUE]
  /\ op' = [op EXCEPT ![h] = "drop"]
  /\ ret' = [ret EXCEPT ![h] = "none"]
  /\ pc' = [pc EXCEPT ![h] = "drop_fields"]
  /\ UNCHANGED <<chunk, current_lock, prev, payload, readonly, cnt, wbuf, idx, dst, result,
                 lastw, ghostvars, ffivars>>

\* a drop that tears the region down under the remaining handles: payload cleared,
\* control word back to the sentinel (what C25 must tell apart)
drop_map_view_wiping(h) ==
  /\ pc[h] = "drop_fields"
  /\ pc' = [pc EXCEPT ![h] = "unopened"]
  /\ chunk' = INITIALIZE_MASK
  /\ payload' = [k \in 1..Size |-> 0]
  /\ current_lock' = [current_lock EXCEPT ![h] = 0]
  /\ closed' = [closed EXCEPT ![h] = FALSE]
  /\ readonly' = [readonly EXCEPT ![h] = FALSE]
  /\ cnt' = [cnt EXCEPT ![h] = 0]
  /\ wbuf' = [wbuf EXCEPT ![h] = <<>>]
  /\ idx' = [idx EXCEPT ![h] = 0]
  /\ dst' = [dst EXCEPT ![h] = <<>>]
  /\ result' = [result EXCEPT ![h] = <<>>]
  /\ UNCHANGED <<prev, op, ret, lastw, ghostvars, ffivars>>

\* Drop for MemoryMappedView, run when the object's field map_view is dropped: unmap();
\* the object is gone afterwards
drop_map_view(h) ==
  /\ pc[h] = "drop_fields"
  /\ pc' = [pc EXCEPT ![h] = "unopened"]
  /\ current_lock' = [current_lock EXCEPT ![h] = 0]
  /\ closed' = [closed EXCEPT ![h] = FALSE]
  /\ readonly' = [readonly EXCEPT ![h] = FALSE]
  /\ cnt' = [cnt EXCEPT ![h] = 0]
  /\ wbuf' = [wbuf EXCEPT ![h] = <<>>]
  /\ idx' = [idx EXCEPT ![h] = 0]
  /\ dst' = [dst EXCEPT ![h] = <<>>]
  /\ result' = [result EXCEPT ![h] = <<>>]
  /\ UNCHANGED <<chunk, prev, op, ret, payload, lastw, ghostvars, ffivars>>

\* the checks a call makes before it touches the lock: the error it returns, or "go"
read_to_raw_check(h, count) ==
  IF closed[h] THEN "MMF_NotFound"
  ELSE IF count = 0 THEN "GeneralFailure"
  ELSE IF ~initialized(h) THEN "Uninitialized"
  ELSE "go"

read_to_raw_spin_check(h, count) ==
  IF closed[h] THEN "MMF_NotFound"
  ELSE IF count = 0 THEN "GeneralFailure"
  ELSE "go"

\* write's checks with the close latch left out (what C8 must tell apart)
write_check_unlatched(h, buf) ==
  IF readonly[h] THEN "MMF_NotFound"
  ELSE IF Min(Len(buf), Size) < Len(buf) THEN "NotEnoughMemory"
  ELSE IF ~initialized(h) THEN "Uninitialized"
  ELSE "go"

\* write's checks with the size test left out (what C17 must tell apart)
write_check_unbounded(h, buf) ==
  IF readonly[h] \/ closed[h] THEN "MMF_NotFound"
  ELSE IF ~initialized(h) THEN "Uninitialized"
  ELSE "go"

write_check(h, buf) ==
  IF readonly[h] \/ closed[h] THEN "MMF_NotFound"
  ELSE IF Min(Len(buf), Size) < Len(buf) THEN "NotEnoughMemory"
  ELSE IF ~initialized(h) THEN "Uninitialized"
  ELSE "go"

\* write_spin's checks with the readonly test left out (what C18 must tell apart)
write_spin_check_writable(h, buf) ==
  IF closed[h] THEN "MMF_NotFound"
  ELSE IF Min(Len(buf), Size) < Len(buf) THEN "NotEnoughMemory"
  ELSE "go"

write_spin_check(h, buf) ==
  IF readonly[h] \/ closed[h] THEN "MMF_NotFound"
  ELSE IF Min(Len(buf), Size) < Len(buf) THEN "NotEnoughMemory"
  ELSE "go"

\* the entry of a call of the Mmf trait with its arguments: it returns the error of
\* its checks, or goes on to the lock primitive at label
MmfCall(h, name, count, buf, check, label) ==
  /\ pc[h] = "idle"
  /\ pc' = [pc EXCEPT ![h] = IF check = "go" THEN label ELSE "idle"]
  /\ op' = [op EXCEPT ![h] = name]
  /\ ret' = [ret EXCEPT ![h] = IF check = "go" THEN "pending" ELSE check]
  /\ cnt' = [cnt EXCEPT ![h] = count]
  /\ wbuf' = [wbuf EXCEPT ![h] = buf]
  /\ idx' = [idx EXCEPT ![h] = 0]
  /\ dst' = [dst EXCEPT ![h] = <<>>]
  /\ result' = [result EXCEPT ![h] = <<>>]
  /\ lastw' = IF name \in WriteOps THEN None ELSE lastw
  /\ UNCHANGED <<chunk, current_lock, prev, payload, closed, readonly, ghostvars, ffivars>>

\* read -> read_to_buf -> read_to_raw
read_to_raw(h) ==
  \E count \in Counts :
    MmfCall(h, "read", count, <<>>, read_to_raw_check(h, count), "lr_init")

read_to_raw_spin(h) ==
  \E count \in Counts :
    MmfCall(h, "read_spin", count, <<>>, read_to_raw_spin_check(h, count), "lr_init")

write(h) ==
  \E buf \in Bufs : MmfCall(h, "write", 0, buf, write_check(h, buf), "lw_init")

write_spin(h) ==
  \E buf \in Bufs : MmfCall(h, "write_spin", 0, buf, write_spin_check(h, buf), "lw_init")

\* write_ptr.copy_to(buffer, count.min(size)), one byte a step; unlock_read follows
read_copy(h) ==
  /\ pc[h] = "rd_copy"
  /\ idx[h] < Min(cnt[h], Size)
  /\ dst' = [dst EXCEPT ![h] = Append(@, payload[idx[h] + 1])]
  /\ idx' = [idx EXCEPT ![h] = @ + 1]
  /\ pc' = [pc EXCEPT ![h] = IF idx[h] + 1 < Min(cnt[h], Size) THEN @ ELSE "ur_init"]
  /\ UNCHANGED <<chunk, current_lock, prev, op, ret, payload, closed, readonly, cnt, wbuf,
                 result, lastw, ghostvars, ffivars>>

\* src_ptr.copy_to(write_ptr, cap), one byte a step; unlock_write follows
write_copy(h) ==
  /\ pc[h] = "wr_copy"
  /\ idx[h] < Min(Len(wbuf[h]), Size)
  /\ payload' = [payload EXCEPT ![idx[h] + 1] = wbuf[h][idx[h] + 1]]
  /\ idx' = [idx EXCEPT ![h] = @ + 1]
  /\ pc' = [pc EXCEPT ![h] = IF idx[h] + 1 < Min(Len(wbuf[h]), Size) THEN @ ELSE "uw_wl"]
  /\ UNCHANGED <<chunk, current_lock, prev, op, ret, closed, readonly, cnt, wbuf, dst,
                 result, lastw, ghostvars, ffivars>>

MmfSteps(h) ==
  \/ read_to_raw(h) \/ read_to_raw_spin(h) \/ write(h) \/ write_spin(h)
  \/ read_copy(h) \/ write_copy(h)
  \/ close(h)
  \/ \E ro \in BOOLEAN : open(h, ro)
  \/ LockSteps(h)

\* ------------------------------------------------ the FFI registry
\* the mappings pushed in a run and the mmf_idx values callers pass
MaxMaps == 3

IdxArgs == 0..MaxMaps

\* no registry yet (the OnceLock is empty), nothing selected, no call made
FfiStart ==
  /\ MMFS = [set |-> FALSE, inner |-> <<>>]
  /\ CURRENT = 0
  /\ issued = <<>>
  /\ ffi_call = [op |-> "none", mmf_idx |-> 0, ret |-> 0, looked |-> FALSE, sel |-> 0,
                 alive |-> TRUE]

\* a call that returns ret without looking a mapping up
FfiReturn(name, mmf_idx, r) ==
  ffi_call' = [op |-> name, mmf_idx |-> mmf_idx, ret |-> r, looked |-> FALSE, sel |-> 0,
               alive |-> TRUE]

\* init(count): MMFS.set(..), 0 on success and -1 when the registry exists
init ==
  /\ ffi_call.alive
  /\ MMFS' = [MMFS EXCEPT !.set = TRUE]
  /\ FfiReturn("init", 0, IF MMFS.set THEN -1 ELSE 0)
  /\ UNCHANGED <<CURRENT, issued, mmfvars>>

\* what open and new do with their arguments: the error of the first that is unusable,
\* -4 when the mapping cannot be opened or created; otherwise the mapping is pushed,
\* idx = inner.len() - 1 is returned and CURRENT is set to idx if it was 0
FfiArgs == {"size 0", "bad name", "bad namespace", "not opened", "mapped"}

FfiPush(name, arg) ==
  /\ ffi_call.alive
  /\ Len(issued) < MaxMaps
  /\ IF arg # "mapped"
     THEN /\ FfiReturn(name, 0, CASE arg = "size 0" -> -1 [] arg = "bad name" -> -2
                                  [] arg = "bad namespace" -> -3 [] OTHER -> -4)
          /\ UNCHANGED <<MMFS, CURRENT, issued>>
     ELSE LET inner == Append(MMFS.inner, Len(issued) + 1)
              i == Len(inner) - 1
          IN /\ MMFS' = [set |-> TRUE, inner |-> inner]
             /\ CURRENT' = IF CURRENT = 0 THEN i ELSE CURRENT
             /\ issued' = Append(issued, i)
             /\ ffi_call' = [op |-> name, mmf_idx |-> 0, ret |-> i, looked |-> FALSE,
                             sel |-> Len(issued) + 1, alive |-> TRUE]
  /\ UNCHANGED mmfvars

ffi_open == \E arg \in FfiArgs : FfiPush("open", arg)

ffi_new == \E arg \in FfiArgs : FfiPush("new", arg)

\* inner.get(mmf_idx.map(|nsu| nsu.get()).unwrap_or_else(|| CURRENT.load(..))): mmf_idx
\* is an Option<NonZeroUsize>, so that 0 is None. Yields the mapping, or 0 for None.
FfiGetDirect(reg, mmf_idx) ==
  IF mmf_idx < Len(reg.inner) THEN reg.inner[mmf_idx + 1] ELSE 0

FfiGet(mmf_idx) ==
  LET i == IF mmf_idx = 0 THEN CURRENT ELSE mmf_idx
  IN IF i < Len(MMFS.inner) THEN MMFS.inner[i + 1] ELSE 0

\* a call that looks mmf_idx up: none when there is no registry or no such element,
\* otherwise the code for what the selected mapping's read or write returned
FfiSelect(name, mmf_idx, none, codes) ==
  IF ~MMFS.set \/ FfiGet(mmf_idx) = 0
  THEN ffi_call' = [op |-> name, mmf_idx |-> mmf_idx, ret |-> IF MMFS.set THEN none[2] ELSE none[1],
                    looked |-> MMFS.set, sel |-> 0, alive |-> TRUE]
  ELSE \E r \in codes :
         ffi_call' = [op |-> name, mmf_idx |-> mmf_idx, ret |-> r, looked |-> TRUE,
                      sel |-> FfiGet(mmf_idx), alive |-> TRUE]

\* read_buf(mmf_idx, count, buff): -4 for a null buff, 0 for count = 0, -1 without a
\* registry or a mapping, else 0 / -2 / -3 / -4 from read_to_raw
ffi_read_buf ==
  /\ ffi_call.alive
  /\ \E mmf_idx \in IdxArgs, early \in {"null", "count 0", "no"} :
       IF early # "no"
       THEN FfiReturn("read_buf", mmf_idx, IF early = "null" THEN -4 ELSE 0)
       ELSE FfiSelect("read_buf", mmf_idx, <<-1, -1>>, {0, -2, -3, -4})
  /\ UNCHANGED <<MMFS, CURRENT, issued, mmfvars>>

\* write(mmf_idx, data, size): -5 for null data, 0 for size = 0, -5 without a registry,
\* -3 without a mapping, else 0 / -1 / -2 / -3 / -4 / -5 from write
ffi_write ==
  /\ ffi_call.alive
  /\ \E mmf_idx \in IdxArgs, early \in {"null", "size 0", "no"} :
       IF early # "no"
       THEN FfiReturn("write", mmf_idx, IF early = "null" THEN -5 ELSE 0)
       ELSE FfiSelect("write", mmf_idx, <<-5, -3>>, {0, -1, -2, -3, -4, -5})
  /\ UNCHANGED <<MMFS, CURRENT, issued, mmfvars>>

\* Vec::remove(index): the elements after index move down by one
VecRemove(v, index) ==
  [k \in 1..(Len(v) - 1) |-> IF k <= index THEN v[k] ELSE v[k + 1]]

\* close(mmf_idx): nothing without a registry; otherwise drop(inner.remove(mmf_idx)).
\* Vec::remove panics when mmf_idx >= len, and a panic that leaves an extern "system"
\* function ends the process.
ffi_close ==
  /\ ffi_call.alive
  /\ \E mmf_idx \in IdxArgs :
       IF ~MMFS.set
       THEN FfiReturn("close", mmf_idx, 0) /\ UNCHANGED MMFS
       ELSE IF mmf_idx < Len(MMFS.inner)
       THEN /\ FfiReturn("close", mmf_idx, 0)
            /\ MMFS' = [MMFS EXCEPT !.inner = VecRemove(MMFS.inner, mmf_idx)]
       ELSE /\ ffi_call' = [op |-> "close", mmf_idx |-> mmf_idx, ret |-> 0, looked |-> FALSE,
                            sel |-> 0, alive |-> FALSE]
            /\ UNCHANGED MMFS
  /\ UNCHANGED <<CURRENT, issued, mmfvars>>

\* --------------------------------------------------- specifications
InitCommon ==
  /\ chunk = ZeroWord
  /\ current_lock = [i \in Inst |-> 0]
  /\ prev = [i \in Inst |-> ZeroWord]
  /\ op = [i \in Inst |-> "none"]
  /\ ret = [i \in Inst |-> "none"]
  /\ heldR = [i \in Inst |-> 0]
  /\ heldW = [i \in Inst |-> FALSE]
  /\ rawcall = [i \in Inst |-> FALSE]
  /\ wheld = [i \in Inst |-> {}]
  /\ quiet = [st |-> "no", who |-> Creator]
  /\ payload = [k \in 1..Size |-> 0]
  /\ closed = [i \in Inst |-> FALSE]
  /\ readonly = [i \in Inst |-> FALSE]
  /\ cnt = [i \in Inst |-> 0]
  /\ wbuf = [i \in Inst |-> <<>>]
  /\ idx = [i \in Inst |-> 0]
  /\ dst = [i \in Inst |-> <<>>]
  /\ result = [i \in Inst |-> <<>>]
  /\ lastw = None
  /\ FfiStart

\* a published word with every instance attached by from_existing
Init ==
  /\ InitCommon
  /\ pc = [i \in Inst |-> "idle"]

Next ==
  \E i \in Inst :
    \/ CallLockRead(i) \/ CallLockWrite(i) \/ CallUnlockRead(i) \/ CallUnlockWrite(i)
    \/ LockSteps(i)

Spec == Init /\ [][Next]_vars

\* a zero word on which the first instance is about to run from_raw(..).initialize(),
\* the others attached by from_existing; every call of the trait may be made
InitAny ==
  /\ InitCommon
  /\ pc = [i \in Inst |-> IF i = Creator THEN "new_raw" ELSE "idle"]

NextAny ==
  \/ Next
  \/ \E i \in Inst :
       \/ from_raw(i) \/ set_init(i)
       \/ MisuseUnlockRead(i) \/ MisuseUnlockWrite(i) \/ CallSetInit(i)

SpecAny == InitAny /\ [][NextAny]_vars

\* a region whose creator has returned from new(); the other handles are yet to open it
InitMMF ==
  /\ InitCommon
  /\ pc = [i \in Inst |-> IF i = Creator THEN "idle" ELSE "unopened"]

NextMMF == \E h \in Inst : MmfSteps(h)

SpecMMF == InitMMF /\ [][NextMMF]_vars

\* a mapping just created and mapped by the creator, which is about to zero and publish it
\* (the rest of new()); the name already resolves, so the other handles may open and use
\* the region meanwhile and afterwards
InitCreate ==
  /\ InitCommon
  /\ pc = [i \in Inst |-> IF i = Creator THEN "new_zero" ELSE "unopened"]

NextCreate ==
  \E h \in Inst :
    \/ new_zero(h) \/ from_raw(h) \/ set_init(h)
    \/ h # Creator /\ MmfSteps(h)

SpecCreate == InitCreate /\ [][NextCreate]_vars

\* one thread that owns every Mapping Object: it creates, opens, uses, closes and drops
\* them, one call at a time (the unit tests' setting); no region exists at the start
InitLife ==
  /\ InitCommon
  /\ pc = [i \in Inst |-> "unopened"]

\* no other object of the thread is in the middle of a call
Alone(h) == \A j \in Inst \ {h} : ~InCall(j)

NextLife ==
  \E h \in Inst :
    \/ Alone(h) /\ new(h)
    \/ Alone(h) /\ new_zero(h)
    \/ Alone(h) /\ from_raw(h)
    \/ Alone(h) /\ set_init(h)
    \/ Alone(h) /\ read_to_raw(h)
    \/ Alone(h) /\ read_to_raw_spin(h)
    \/ Alone(h) /\ write(h)
    \/ Alone(h) /\ write_spin(h)
    \/ Alone(h) /\ read_copy(h)
    \/ Alone(h) /\ write_copy(h)
    \/ Alone(h) /\ close(h)
    \/ Alone(h) /\ (\E ro \in BOOLEAN : open(h, ro))
    \/ Alone(h) /\ LockSteps(h)
    \/ Alone(h) /\ drop(h)
    \/ Alone(h) /\ drop_map_view(h)

SpecLife == InitLife /\ [][NextLife]_vars

\* a published word with every instance attached by from_existing; callers may also
\* call the unlocks without having been granted the lock
NextMisuse ==
  \/ Next
  \/ \E i \in Inst : MisuseUnlockRead(i) \/ MisuseUnlockWrite(i)

SpecMisuse == Init /\ [][NextMisuse]_vars

\* a published word on which processes outside Inst hold read locks, their count
\* within SatGap of the cap; the instances take and release read locks
InitSat ==
  /\ chunk \in {[hi |-> 0, r |-> n] : n \in (READ_LOCK_MASK - SatGap)..READ_LOCK_MASK}
  /\ current_lock = [i \in Inst |-> 0]
  /\ prev = [i \in Inst |-> ZeroWord]
  /\ pc = [i \in Inst |-> "idle"]
  /\ op = [i \in Inst |-> "none"]
  /\ ret = [i \in Inst |-> "none"]
  /\ heldR = [i \in Inst |-> 0]
  /\ heldW = [i \in Inst |-> FALSE]
  /\ rawcall = [i \in Inst |-> FALSE]
  /\ wheld = [i \in Inst |-> {}]
  /\ quiet = [st |-> "no", who |-> Creator]
  /\ payload = [k \in 1..Size |-> 0]
  /\ closed = [i \in Inst |-> FALSE]
  /\ readonly = [i \in Inst |-> FALSE]
  /\ cnt = [i \in Inst |-> 0]
  /\ wbuf = [i \in Inst |-> <<>>]
  /\ idx = [i \in Inst |-> 0]
  /\ dst = [i \in Inst |-> <<>>]
  /\ result = [i \in Inst |-> <<>>]
  /\ lastw = None
  /\ FfiStart

NextSat ==
  \E i \in Inst :
    \/ CallLockRead(i) \/ CallUnlockRead(i)
    \/ lock_read_initialized(i) \/ lock_read_writelocked(i) \/ lock_read_load(i) \/ lock_read_cas(i)
    \/ unlock_read_initialized(i) \/ unlock_read_writelocked(i) \/ unlock_read_load(i)
    \/ unlock_read_cas(i)

SpecSat == InitSat /\ [][NextSat]_vars

\* a published word on which the first instance holds all the read locks there are, their
\* number within MaxHeld of the 127 an instance can track; the instances take and
\* release read locks
InitCap ==
  /\ \E n \in (HOLDING_R - MaxHeld)..HOLDING_R :
       /\ chunk = [hi |-> 0, r |-> n]
       /\ current_lock = [i \in Inst |-> IF i = Creator THEN n ELSE 0]
       /\ heldR = [i \in Inst |-> IF i = Creator THEN n ELSE 0]
  /\ prev = [i \in Inst |-> ZeroWord]
  /\ pc = [i \in Inst |-> "idle"]
  /\ op = [i \in Inst |-> "none"]
  /\ ret = [i \in Inst |-> "none"]
  /\ heldW = [i \in Inst |-> FALSE]
  /\ rawcall = [i \in Inst |-> FALSE]
  /\ wheld = [i \in Inst |-> {}]
  /\ quiet = [st |-> "no", who |-> Creator]
  /\ payload = [k \in 1..Size |-> 0]
  /\ closed = [i \in Inst |-> FALSE]
  /\ readonly = [i \in Inst |-> FALSE]
  /\ cnt = [i \in Inst |-> 0]
  /\ wbuf = [i \in Inst |-> <<>>]
  /\ idx = [i \in Inst |-> 0]
  /\ dst = [i \in Inst |-> <<>>]
  /\ result = [i \in Inst |-> <<>>]
  /\ lastw = None
  /\ FfiStart

SpecCap == InitCap /\ [][NextSat]_vars

\* a published word, free or with readers outside Inst within SatGap of the cap; the
\* instances take their locks through the spin helpers and release what they were granted
InitSpin ==
  /\ chunk \in {[hi |-> 0, r |-> n] : n \in {0} \cup ((READ_LOCK_MASK - SatGap)..READ_LOCK_MASK)}
  /\ current_lock = [i \in Inst |-> 0]
  /\ prev = [i \in Inst |-> ZeroWord]
  /\ pc = [i \in Inst |-> "idle"]
  /\ op = [i \in Inst |-> "none"]
  /\ ret = [i \in Inst |-> "none"]
  /\ heldR = [i \in Inst |-> 0]
  /\ heldW = [i \in Inst |-> FALSE]
  /\ rawcall = [i \in Inst |-> FALSE]
  /\ wheld = [i \in Inst |-> {}]
  /\ quiet = [st |-> "no", who |-> Creator]
  /\ payload = [k \in 1..Size |-> 0]
  /\ closed = [i \in Inst |-> FALSE]
  /\ readonly = [i \in Inst |-> FALSE]
  /\ cnt = [i \in Inst |-> 0]
  /\ wbuf = [i \in Inst |-> <<>>]
  /\ idx = [i \in Inst |-> 0]
  /\ dst = [i \in Inst |-> <<>>]
  /\ result = [i \in Inst |-> <<>>]
  /\ lastw = None
  /\ FfiStart

NextSpin ==
  \E i \in Inst :
    \/ spin_and_lock_read(i) \/ spin_and_lock_write(i)
    \/ CallUnlockRead(i) \/ CallUnlockWrite(i)
    \/ LockSteps(i)

SpecSpin == InitSpin /\ [][NextSpin]_vars

\* ----------------------------------------------------- RWLock::spin
\* a usize is read in two's complement, so that usize::MAX is -1 and usize::MAX + 1 wraps
\* to 0; the counters tried are those within MaxTries of either end
usize_MAX == -1

SpinTries == (usize_MAX - MaxTries)..MaxTries

\* tries.add_assign(1); let held = self.locked(); Err(LockViolation) when the counter is
\* at usize::MAX with the lock held, Ok(held) otherwise. The argument is kept in cnt and
\* the counter as the call leaves it in idx. checked is a build with overflow checks,
\* where add_assign panics on usize::MAX; without them the counter wraps.
spin(i) ==
  /\ pc[i] = "idle"
  /\ \E tries \in SpinTries, checked \in BOOLEAN :
       LET held == locked(i)
           panics == checked /\ tries = usize_MAX
       IN /\ checked => tries = usize_MAX
          /\ pc' = [pc EXCEPT ![i] = IF panics THEN "panicked" ELSE "idle"]
          /\ op' = [op EXCEPT ![i] = "spin"]
          /\ cnt' = [cnt EXCEPT ![i] = tries]
          /\ idx' = [idx EXCEPT ![i] = IF panics THEN tries ELSE tries + 1]
          /\ ret' = [ret EXCEPT ![i] =
                       IF panics THEN "panic"
                       ELSE IF tries + 1 = usize_MAX /\ held THEN "LockViolation"
                       ELSE IF held THEN "Ok(true)" ELSE "Ok(false)"]
  /\ UNCHANGED <<chunk, current_lock, prev, payload, closed, readonly, wbuf, dst, result,
                 lastw, ghostvars, ffivars>>

\* a published word whose instances, one call at a time, lock, unlock and ask spin
\* whether to keep waiting
NextProbe ==
  \E i \in Inst :
    \/ Alone(i) /\ spin(i)
    \/ Alone(i) /\ CallLockRead(i)
    \/ Alone(i) /\ CallLockWrite(i)
    \/ Alone(i) /\ CallUnlockRead(i)
    \/ Alone(i) /\ CallUnlockWrite(i)
    \/ Alone(i) /\ LockSteps(i)

SpecProbe == Init /\ [][NextProbe]_vars

\* the read locks granted and not yet released, over all instances
RECURSIVE SumHeldR(_)
SumHeldR(S) ==
  IF S = {} THEN 0 ELSE LET i == CHOOSE x \in S : TRUE IN heldR[i] + SumHeldR(S \ {i})

\* a process that uses the crate through the FFI functions only
NextFFI == init \/ ffi_open \/ ffi_new \/ ffi_read_buf \/ ffi_write \/ ffi_close

SpecFFI == Init /\ [][NextFFI]_vars

\* ------------------------------------------------------------ claims

\* C1: on a published word, with callers that release only what they were granted,
\* the word never shows the write flag together with a positive reader count.
C1_NoWriterWithReaders == ~(chunk.hi >= W_BIT /\ chunk.r > 0)

\* C2: the write lock is exclusive among writers: no two instances have both been
\* granted the write lock (lock_write returned Ok) without an unlock_write in between.
C2_WriteLockExclusive == \A a, b \in Inst : a # b => ~(heldW[a] /\ heldW[b])

\* C3: for write and read calls made through different handles, no handle is inside
\* the copy of a read while another handle is inside the copy of a write.
C3_NoReadCopyDuringWriteCopy ==
  \A a, b \in Inst : a # b => ~(pc[a] = "rd_copy" /\ pc[b] = "wr_copy")

\* C4: while the creator has not finished zero / from_raw / publish, no opener has
\* acquired a lock (it is not copying and has no unlock to make), and every read or
\* write an opener has completed with usable arguments returned Uninitialized.
C4_OpenerSeesPublishedOrUninitialized ==
  \A h \in Inst \ {Creator} :
    pc[Creator] \in {"new_zero", "new_raw", "new_init"} =>
      /\ pc[h] \notin {"rd_copy", "wr_copy", "ur_init", "ur_wl", "ur_load", "ur_cas",
                       "uw_wl", "uw_init", "uw_load", "uw_cas"}
      /\ (pc[h] = "idle" /\ ~closed[h] /\ op[h] \in ReadOps /\ cnt[h] > 0) =>
            ret[h] = "Uninitialized"
      /\ (pc[h] = "idle" /\ ~closed[h] /\ ~readonly[h] /\ op[h] \in WriteOps
            /\ Len(wbuf[h]) <= Size) => ret[h] = "Uninitialized"

\* C5: from from_raw until publish, initialized() is false on every instance;
\* from publish on it is true on every instance.
C5_InitializedFollowsPublish ==
  /\ Unpublished => \A i \in Inst : ~initialized(i)
  /\ Published => \A i \in Inst : initialized(i)

\* C6: set_init called on a word the creator has already published leaves the word
\* (W and R) as it was.
C6_PublishIsNoOp ==
  [][\A i \in Inst :
       (pc[i] = "si" /\ pc'[i] = "idle" /\ Published /\ chunk.hi < INIT_BYTE)
         => chunk' = chunk]_vars

\* C7: write(buf) with 1 <= len <= size returned Ok with no other call in progress and
\* no write has been called since: a read(len) through any open handle, when it returns,
\* returns Ok with exactly the bytes of buf.
C7_WriteReadRoundTrip ==
  [][\A h \in Inst :
       (/\ pc[h] \notin {"idle", "panicked"} /\ pc'[h] \in {"idle", "panicked"}
        /\ op[h] = "read" /\ lastw.ok
        /\ Len(lastw.buf) >= 1 /\ cnt[h] = Len(lastw.buf))
       => (ret'[h] = "Ok" /\ result'[h] = lastw.buf)]_vars

\* C8: once close() has been called on a handle it stays closed; every read, write and
\* *_spin call made on it afterwards returns MMF_NotFound within the call's first step,
\* and no step of the handle changes the control word, its lock state or the payload.
C8_ClosedStaysUnusable ==
  [][\A h \in Inst :
       closed[h] =>
         /\ closed'[h]
         /\ pc[h] = "idle" /\ pc'[h] = "idle"
         /\ current_lock'[h] = current_lock[h]
         /\ (<<op[h], ret[h], cnt[h], wbuf[h], result[h]>>' # <<op[h], ret[h], cnt[h], wbuf[h], result[h]>>)
              => /\ chunk' = chunk
                 /\ payload' = payload
                 /\ op'[h] \in (ReadOps \cup WriteOps) => ret'[h] = "MMF_NotFound"]_vars

\* C8 witness: a writable handle, closed, has had a write it could otherwise make refused
\* while the other handle is in the middle of a call
C8_Witness ==
  \E h \in Inst :
    /\ closed[h] /\ ~readonly[h]
    /\ op[h] \in WriteOps /\ Len(wbuf[h]) <= Size /\ ret[h] = "MMF_NotFound"
    /\ \E j \in Inst \ {h} : InCall(j)

\* C9: a lock_read, unlock_read, lock_write or unlock_write that runs entirely while the
\* word is unpublished returns Uninitialized.
C9_UninitializedRejectsAll ==
  \A i \in Inst :
    (pc[i] = "idle" /\ op[i] \in LockOps /\ rawcall[i] /\ Unpublished) => ret[i] = "Uninitialized"

\* C10: a lock_read called while another instance holds the write lock, and returning
\* while that instance still holds it, returns WriteLocked; and the lock_read that is
\* the next call after a writer's successful unlock_write (nothing else running), made
\* by an instance that holds no write lock itself, returns Ok.
C10_WriterExcludesReaders ==
  \A i \in Inst :
    (pc[i] = "idle" /\ op[i] = "lock_read") =>
       /\ wheld[i] # {} => ret[i] = "WriteLocked"
       /\ (quiet = [st |-> "next", who |-> i] /\ ~heldW[i]) => ret[i] = "Ok"

\* C11: a lock_write that returns on a published word with W = 0 and 0 < R below the cap
\* returns ReadLocked and leaves the word unchanged, and a lock_read that returns on
\* such a word while another instance holds a read lock returns Ok.
C11_ReadersExcludeWriterOnly ==
  [][\A i \in Inst :
       (/\ pc[i] # "idle" /\ pc'[i] = "idle"
        /\ chunk.hi = 0 /\ chunk.r > 0 /\ chunk.r < READ_LOCK_MASK)
       => /\ op[i] = "lock_write" => (ret'[i] = "ReadLocked" /\ chunk' = chunk)
          /\ (op[i] = "lock_read" /\ \E j \in Inst \ {i} : heldR[j] > 0) => ret'[i] = "Ok"]_vars

\* C12: with readers only, the reader count never carries into bit 24 and never wraps
\* from the cap to zero, and a lock_read that returns while R is all-ones returns
\* MaxReaders and leaves the word unchanged.
C12_ReaderSaturation ==
  [][/\ chunk'.hi = 0
     /\ chunk.r = READ_LOCK_MASK => chunk'.r >= READ_LOCK_MASK - 1
     /\ \A i \in Inst :
          (/\ pc[i] # "idle" /\ pc'[i] = "idle" /\ op[i] = "lock_read"
           /\ chunk.r = READ_LOCK_MASK)
          => (ret'[i] = "MaxReaders" /\ chunk' = chunk)]_vars

\* C12 witness: an instance far below its own cap of 127 was refused at the cap of the word
C12_Witness ==
  \E i \in Inst :
    /\ pc[i] = "idle" /\ op[i] = "lock_read" /\ ret[i] = "MaxReaders"
    /\ chunk.r = READ_LOCK_MASK /\ chunk.hi = 0
    /\ (current_lock[i] % (HOLDING_R + 1)) < HOLDING_R

\* C13: an unlock_write that returns on an instance that was not granted the write lock,
\* while another instance has held it ever since the call began, returns an error and
\* leaves W set; and the unlock_write of an instance that was granted the lock returns Ok.
C13_OnlyHolderReleasesWrite ==
  [][\A i \in Inst :
       (pc[i] # "idle" /\ pc'[i] = "idle" /\ op[i] = "unlock_write")
       => /\ (~heldW[i] /\ wheld[i] # {})
               => (ret'[i] \in Errors /\ chunk' = chunk /\ chunk.hi >= W_BIT)
          /\ heldW[i] => ret'[i] = "Ok"]_vars

\* C14: an unlock_read that returns on an instance that holds no read lock returns an
\* error and leaves the word (so R) unchanged, whatever read locks others hold.
C14_NoReleaseOfUnheldRead ==
  [][\A i \in Inst :
       (pc[i] # "idle" /\ pc'[i] = "idle" /\ op[i] = "unlock_read" /\ heldR[i] = 0)
       => (ret'[i] \in Errors /\ chunk' = chunk)]_vars

\* C15: a read(0) made on an open handle returns Ok with exactly size bytes.
C15_ReadZeroReadsAll ==
  \A h \in Inst :
    (pc[h] = "idle" /\ op[h] = "read" /\ cnt[h] = 0 /\ ~closed[h])
    => (ret[h] = "Ok" /\ Len(result[h]) = Size)

\* C16: a read(count) with count > 0 that returns Ok returns min(count, size) bytes,
\* equal to the first min(count, size) bytes of the payload.
C16_ReadLengthIsClamped ==
  [][\A h \in Inst :
       (/\ pc[h] # "idle" /\ pc'[h] = "idle" /\ op[h] = "read"
        /\ cnt[h] > 0 /\ ret'[h] = "Ok")
       => /\ Len(result'[h]) = Min(cnt[h], Size)
          /\ \A k \in 1..Min(cnt[h], Size) : result'[h][k] = payload[k]]_vars

\* C17: a write or write_spin of more than size bytes, made on an open writable handle,
\* returns NotEnoughMemory within the call's first step and changes neither the payload
\* nor the control word nor the handle's lock state.
C17_OversizedWriteRefused ==
  [][\A h \in Inst :
       (/\ pc[h] = "idle" /\ ~closed[h] /\ ~readonly[h]
        /\ op'[h] \in WriteOps /\ Len(wbuf'[h]) > Size
        /\ <<pc[h], op[h], ret[h], wbuf[h], cnt[h], result[h]>>'
             # <<pc[h], op[h], ret[h], wbuf[h], cnt[h], result[h]>>)
       => /\ pc'[h] = "idle" /\ ret'[h] = "NotEnoughMemory"
          /\ chunk' = chunk /\ payload' = payload
          /\ current_lock'[h] = current_lock[h]]_vars

\* C17 witness: an oversized write was refused on an open writable handle while the
\* other handle was in the middle of a call
C17_Witness ==
  \E h \in Inst :
    /\ pc[h] = "idle" /\ ~closed[h] /\ ~readonly[h]
    /\ op[h] \in WriteOps /\ Len(wbuf[h]) > Size /\ ret[h] = "NotEnoughMemory"
    /\ \E j \in Inst \ {h} : InCall(j)

C19_UnlockReadAtZeroIsGeneralFailure ==
  [][\A i \in Inst :
       (/\ pc[i] # "idle" /\ pc'[i] = "idle" /\ op[i] = "unlock_read"
        /\ chunk.hi = 0 /\ chunk.r = 0)
       => (ret'[i] = "GeneralFailure" /\ chunk' = chunk)]_vars

\* C20: an unlock_write that returns on an instance holding no write lock, while the
\* published control word has its W bit clear, returns WriteLocked and leaves the word
\* unchanged.
C20_UnlockWriteUnheldIsWriteLocked ==
  [][\A i \in Inst :
       (/\ pc[i] # "idle" /\ pc'[i] = "idle" /\ op[i] = "unlock_write"
        /\ ~heldW[i] /\ chunk.hi = 0)
       => (ret'[i] = "WriteLocked" /\ chunk' = chunk)]_vars

\* C21: over the lifetime of one Mapping Object, CloseHandle is called on its handle at
\* most once (a step that calls it, an explicit close() or the close() in drop, finds the
\* handle not closed before) and its view is unmapped at most once (the unmapping step
\* ends the object).
C21_HandleClosedAtMostOnce ==
  [][\A h \in Inst :
       /\ ((\/ pc[h] = "idle" /\ pc'[h] = "drop_fields"
            \/ /\ pc[h] = "idle" /\ pc'[h] = "idle" /\ op'[h] = "close"
               /\ <<op[h], ret[h], closed[h]>>' # <<op[h], ret[h], closed[h]>>)
           => ~closed[h])
       /\ (pc[h] = "drop_fields" /\ pc'[h] # "drop_fields") => pc'[h] = "unopened"]_vars

\* C22: when a Mapping Object is destroyed its view is unmapped before its handle is
\* closed: at the step that unmaps the view, CloseHandle has not yet been called.
C22_UnmapBeforeHandleClose ==
  [][\A h \in Inst :
       (pc[h] = "drop_fields" /\ pc'[h] = "unopened") => ~closed[h]]_vars

\* C23: publish() is idempotent.  Every set_init leaves the word 0 and the instance's
\* private state 0 whatever they were before, and a set_init that starts from the state
\* a set_init leaves changes neither: publish(); publish() ends where publish() ends.
C23_PublishIdempotent ==
  [][\A i \in Inst :
       (pc[i] \in {"new_init", "si"} /\ pc'[i] = "idle")
       => /\ chunk' = ZeroWord /\ current_lock'[i] = 0
          /\ (chunk = ZeroWord /\ current_lock[i] = 0)
               => (chunk' = chunk /\ current_lock' = current_lock)]_vars

\* C23 witness: the creator has published and another instance has published after it,
\* with no call made by anyone since
C23_Witness ==
  \E i \in Inst \ {Creator} :
    /\ pc[Creator] = "idle" /\ op[Creator] = "set_init"
    /\ pc[i] = "idle" /\ op[i] = "set_init" /\ ret[i] = "Ok" /\ quiet.who = i
    /\ chunk = ZeroWord /\ current_lock[i] = 0

\* C24: when Create returns Ok (the step that ends new()), the control word is published
\* with W = 0 and R = 0 and every payload byte is zero.
C24_CreateLeavesZeroedRegion ==
  [][\A h \in Inst :
       (pc[h] = "new_init" /\ pc'[h] = "idle")
       => /\ chunk' = ZeroWord
          /\ \A k \in 1..Size : payload'[k] = 0]_vars

\* C25: a region persists while a handle to it is open.  A close(), a drop or the unmap
\* of one object, made while another object is open, leaves the payload and the control
\* word unchanged; an open made while some object is open succeeds and leaves them
\* unchanged; and once write(buf) has returned Ok, a read(len buf) through any open
\* handle, whatever was closed, dropped or opened in between, returns the bytes of buf.
C25_RegionPersists ==
  [][\A h \in Inst :
       /\ ((/\ \E j \in Inst \ {h} : pc[j] = "idle"
            /\ \/ pc[h] = "idle" /\ pc'[h] = "drop_fields"
               \/ pc[h] = "drop_fields" /\ pc'[h] = "unopened"
               \/ pc[h] = "idle" /\ pc'[h] = "idle" /\ op'[h] = "close")
           => (chunk' = chunk /\ payload' = payload))
       /\ ((/\ \E j \in Inst \ {h} : pc[j] = "idle"
            /\ pc[h] = "unopened" /\ op'[h] = "open"
            /\ <<op[h], ret[h]>>' # <<op[h], ret[h]>> \/ pc'[h] # pc[h])
           => (pc'[h] = "idle" /\ ret'[h] = "Ok" /\ chunk' = chunk /\ payload' = payload))
       /\ ((/\ pc[h] \notin {"idle", "panicked"} /\ pc'[h] \in {"idle", "panicked"}
            /\ op[h] = "read" /\ lastw.ok
            /\ Len(lastw.buf) >= 1 /\ cnt[h] = Len(lastw.buf))
           => (ret'[h] = "Ok" /\ result'[h] = lastw.buf))]_vars

\* C25 witness: the writing object has been dropped since its write, and the remaining
\* handle, opened read-only, has read the written bytes
C25_Witness ==
  \E h \in Inst :
    /\ pc[h] = "idle" /\ readonly[h] /\ ~closed[h]
    /\ op[h] = "read" /\ ret[h] = "Ok"
    /\ lastw.ok /\ Len(lastw.buf) >= 1 /\ result[h] = lastw.buf
    /\ \A j \in Inst \ {h} : pc[j] = "unopened" /\ op[j] = "drop"

\* C26: Open does not modify shared memory: a successful open leaves the payload and
\* the control word, with the W and R state peers hold at that moment, as they were.
C26_OpenLeavesMemoryAlone ==
  [][\A h \in Inst :
       (pc[h] = "unopened" /\ pc'[h] = "idle" /\ op'[h] = "open" /\ ret'[h] = "Ok")
       => (chunk' = chunk /\ payload' = payload)]_vars

\* C26 witness: a handle has just been opened on a region whose control word carries a
\* peer's lock and whose payload has been written
C26_Witness ==
  \E h \in Inst :
    /\ pc[h] = "idle" /\ op[h] = "open" /\ ret[h] = "Ok"
    /\ chunk # ZeroWord
    /\ \E k \in 1..Size : payload[k] # 0
    /\ \E j \in Inst \ {h} : InCall(j)

\* C27: every read and write call of the Mapping Object ends by returning Ok or an
\* error: no handle ever panics, whatever the other handles do, also when the release
\* of the lock after the copy fails.
C27_NoPanic ==
  \A h \in Inst : pc[h] # "panicked" /\ ret[h] # "panic"

\* C28: a spin helper called with max_tries makes at most max_tries attempts: an attempt
\* is in progress only while fewer than max_tries have failed.  When it returns
\* MaxTriesReached it has made exactly max_tries attempts, and that step leaves the word,
\* the instance's private state and the locks it holds as they were; the only step of a
\* helper that changes the word is the one that returns Ok.
C28_SpinIsBounded ==
  [][\A i \in Inst :
       /\ (op'[i] \in SpinOps /\ pc'[i] # "idle") => idx'[i] < cnt'[i]
       /\ (op[i] \in SpinOps /\ pc[i] # "idle" /\ pc'[i] = "idle" /\ ret'[i] = "MaxTriesReached")
           => /\ idx[i] + 1 = cnt[i]
              /\ chunk' = chunk /\ current_lock'[i] = current_lock[i]
              /\ heldR'[i] = heldR[i] /\ heldW'[i] = heldW[i]
       /\ (op[i] \in SpinOps /\ pc[i] # "idle" /\ pc'[i] # pc[i] /\ chunk' # chunk)
           => ret'[i] = "Ok"]_vars

\* C28 witness: a helper called with the largest budget gave up with MaxTriesReached
\* while another instance held the write lock
C28_Witness ==
  \E i \in Inst :
    /\ pc[i] = "idle" /\ op[i] \in SpinOps /\ ret[i] = "MaxTriesReached"
    /\ cnt[i] = MaxTries /\ ~heldW[i] /\ heldR[i] = 0
    /\ \E j \in Inst \ {i} : heldW[j]

\* C29: the spin helpers retry only on transient contention: spin_and_lock_read starts
\* another attempt only when lock_read found the word write-locked, spin_and_lock_write
\* only when lock_write found it write-locked or read-locked; an attempt that ends in
\* fetch_update ends the call with Ok or with its error, and every error a helper returns
\* other than MaxTriesReached is one of the errors that are not transient.
C29_SpinRetriesOnlyTransient ==
  [][\A i \in Inst :
       /\ (op[i] = "spin_and_lock_read" /\ pc[i] \notin {"idle", "lr_init"} /\ pc'[i] = "lr_init")
           => (pc[i] = "lr_wl" /\ writelocked(i))
       /\ (op[i] = "spin_and_lock_write" /\ pc[i] \notin {"idle", "lw_init"} /\ pc'[i] = "lw_init")
           => \/ pc[i] = "lw_wl" /\ writelocked(i)
              \/ pc[i] = "lw_rl" /\ readlocked(i)
       /\ (op[i] \in SpinOps /\ pc[i] \in {"lr_cas", "lw_cas"} /\ pc'[i] # pc[i])
           => (pc'[i] = "idle" /\ ret'[i] \in {"Ok", "MaxReaders", "GeneralFailure"})
       /\ (op[i] \in SpinOps /\ pc[i] # "idle" /\ pc'[i] = "idle")
           => ret'[i] \in {"Ok", "MaxTriesReached", "Uninitialized", "MaxReaders",
                           "GeneralFailure"}]_vars

\* C29 witness: spin_and_lock_read, called with tries to spare, returned MaxReaders
C29_Witness ==
  \E i \in Inst :
    /\ pc[i] = "idle" /\ op[i] = "spin_and_lock_read" /\ ret[i] = "MaxReaders"
    /\ cnt[i] = MaxTries

\* C30: an instance tracks at most 127 read locks: a lock_read that returns on an
\* instance holding 127 read locks returns MaxReaders and leaves the word unchanged, no
\* instance is ever granted more than 127, and the private state of an instance that
\* takes only read locks never has the write bit set.
C30_InstanceReaderCap ==
  [][\A i \in Inst :
       /\ (pc[i] # "idle" /\ pc'[i] = "idle" /\ op[i] = "lock_read" /\ heldR[i] = HOLDING_R)
           => (ret'[i] = "MaxReaders" /\ chunk' = chunk)
       /\ heldR'[i] <= HOLDING_R
       /\ current_lock'[i] < HOLDING_W]_vars

\* C31: a write(buf) that returns Ok with fewer bytes than size leaves every payload
\* byte past the buffer's length at zero, whatever the payload held before.
C31_ShortWriteZeroesTail ==
  [][\A h \in Inst :
       (/\ pc[h] # "idle" /\ pc'[h] = "idle" /\ op[h] = "write"
        /\ ret'[h] = "Ok" /\ Len(wbuf[h]) < Size)
       => \A k \in (Len(wbuf[h]) + 1)..Size : payload'[k] = 0]_vars

\* C32: a call of spin(tries) that returns leaves tries one higher; it returns Ok(false)
\* when the word has W = 0 and R = 0 and the instance holds nothing, Ok(true) only when
\* a lock is held, and LockViolation only with the counter at the maximum and a lock held.
C32_SpinReportsHeldLock ==
  [][\A i \in Inst :
       (/\ pc[i] = "idle" /\ op'[i] = "spin" /\ pc'[i] = "idle"
        /\ <<op[i], ret[i], cnt[i], idx[i]>>' # <<op[i], ret[i], cnt[i], idx[i]>>)
       => LET held == chunk.hi >= W_BIT \/ chunk.r > 0 \/ current_lock[i] > 0
          IN /\ idx'[i] = cnt'[i] + 1
             /\ ret'[i] = "Ok(true)" => held
             /\ ~held => ret'[i] = "Ok(false)"
             /\ ret'[i] = "LockViolation" => (held /\ idx'[i] = usize_MAX)]_vars

\* C33: with callers that release only what they were granted, a lock_read that returns
\* Ok raises R by exactly 1 and an unlock_read that returns Ok lowers it by exactly 1,
\* both leaving the W and INIT bits alone; a lock or unlock call that returns an error
\* leaves the word unchanged, and no other step changes it; so R always equals the
\* number of read locks granted and not yet released over all instances.
C33_ReaderAccounting ==
  [][/\ \A i \in Inst :
          (pc[i] # "idle" /\ pc'[i] = "idle") =>
             /\ (op[i] = "lock_read" /\ ret'[i] = "Ok")
                  => (chunk'.r = chunk.r + 1 /\ chunk'.hi = chunk.hi)
             /\ (op[i] = "unlock_read" /\ ret'[i] = "Ok")
                  => (chunk'.r = chunk.r - 1 /\ chunk'.hi = chunk.hi)
             /\ ret'[i] \in Errors => chunk' = chunk
     /\ chunk' # chunk => \E i \in Inst : pc[i] # "idle" /\ pc'[i] = "idle" /\ ret'[i] = "Ok"
     /\ chunk'.r = SumHeldR(Inst)']_vars

\* C33 witness: an unlock_read has returned Ok on an instance that still holds a read
\* lock, while the other instance holds one too and has just had a call refused
C33_Witness ==
  \E i \in Inst : \E j \in Inst \ {i} :
    /\ pc[i] = "idle" /\ op[i] = "unlock_read" /\ ret[i] = "Ok" /\ heldR[i] > 0
    /\ pc[j] = "idle" /\ heldR[j] > 0 /\ ret[j] \in Errors
    /\ chunk.r = heldR[i] + heldR[j]

\* C34: the step in which an unlock_write returns Ok leaves the W bit of the word at 0,
\* for callers that release only what they were granted, under every interleaving.
C34_UnlockWriteClearsW ==
  [][\A i \in Inst :
       (pc[i] # "idle" /\ pc'[i] = "idle" /\ op[i] = "unlock_write" /\ ret'[i] = "Ok")
       => chunk'.hi < W_BIT]_vars

\* C35: when no handle is inside a call (every read and write issued has returned), the
\* control word has W = 0 and R = 0.
C35_CallsLeaveNoLockBehind ==
  (\A h \in Inst : pc[h] \in {"idle", "unopened"}) => (chunk.hi < W_BIT /\ chunk.r = 0)

\* C36: on a published word the INIT bits (30..24) are zero in every reachable state,
\* under every interleaving of lock_read, unlock_read, lock_write and unlock_write by
\* any of the instances: the high byte of the word is 0 or the W bit alone.
C36_InitBitsStayZero == chunk.hi \in {0, W_BIT}

\* C36 witness: the word carries the W bit and a reader at once, the state the lock
\* transitions reach with the largest number of bits set
C36_Witness ==
  /\ chunk.hi = W_BIT /\ chunk.r > 0
  /\ \E i \in Inst : pc[i] = "idle" /\ op[i] = "unlock_write" /\ ret[i] = "Ok"

\* C37: whenever an instance is between calls, the low 7 bits of its current_lock equal
\* the number of read locks it was granted and has not released, and the high bit is
\* set iff it was granted the write lock and has not released it.
C37_BookkeepingMatches ==
  \A i \in Inst :
    pc[i] = "idle" =>
      /\ current_lock[i] % (HOLDING_R + 1) = heldR[i]
      /\ (current_lock[i] >= HOLDING_W) <=> heldW[i]

\* C38: a read made on a handle returns within its first step, with the error of the first
\* precondition that fails in the order closed (MMF_NotFound), count = 0 (GeneralFailure),
\* control word initialized (Uninitialized; the view of a handle is always present), and
\* then changes neither the control word nor the handle's lock state nor the payload.
C38_ReadPreconditionOrder ==
  [][\A h \in Inst :
       (/\ pc[h] = "idle" /\ op'[h] = "read"
        /\ <<pc[h], op[h], ret[h], cnt[h], result[h]>>' # <<pc[h], op[h], ret[h], cnt[h], result[h]>>
        /\ (closed[h] \/ cnt'[h] = 0 \/ Unpublished))
       => /\ pc'[h] = "idle"
          /\ ret'[h] = IF closed[h] THEN "MMF_NotFound"
                       ELSE IF cnt'[h] = 0 THEN "GeneralFailure"
                       ELSE "Uninitialized"
          /\ chunk' = chunk /\ payload' = payload
          /\ current_lock'[h] = current_lock[h]]_vars

\* C39: with no close made so far, every index returned by open or new is the place of
\* the mapping just added, and a read_buf or write that looks up an mmf_idx equal to the
\* index returned for a mapping selects that mapping.
C39_ReturnedIndexSelectsMapping ==
  [][(ffi_call' # ffi_call /\ Len(MMFS.inner) = Len(issued)) =>
       /\ (ffi_call'.op \in {"open", "new"} /\ ffi_call'.ret >= 0)
            => FfiGetDirect(MMFS', ffi_call'.ret) = Len(issued')
       /\ (ffi_call'.op \in {"read_buf", "write"} /\ ffi_call'.looked)
            => \A m \in 1..Len(issued) :
                 issued[m] = ffi_call'.mmf_idx => ffi_call'.sel = m]_vars

\* C40: a close(i) leaves the process running; with no mapping at i it leaves the registry
\* as it was, and otherwise every other mapping that the index returned for it selected
\* before is still selected by that index afterwards.
C40_CloseRemovesOnlyOne ==
  [][(ffi_call'.op = "close" /\ <<ffi_call, MMFS>>' # <<ffi_call, MMFS>>) =>
       LET i == ffi_call'.mmf_idx
           gone == FfiGetDirect(MMFS, i)
       IN /\ ffi_call'.alive
          /\ gone = 0 => MMFS' = MMFS
          /\ \A m \in 1..Len(issued) :
               (m # gone /\ FfiGetDirect(MMFS, issued[m]) = m)
                 => FfiGetDirect(MMFS', issued[m]) = m]_vars

====
